---- MODULE Spec2Model ----
(***************************************************************************)
(* A model of app.py: the Streamlit text summarizer.                       *)
(*                                                                         *)
(* A Python value is a record [t |-> type, v |-> payload].  A Python str   *)
(* is a sequence of text fragments: a one-character fragment per           *)
(* character of input data, and one fragment per fixed literal of the      *)
(* source (a prompt sentence, a diagnostic prefix) or per error            *)
(* description produced by a library.                                      *)
(***************************************************************************)
EXTENDS Integers, Sequences, FiniteSets, TLC

VARIABLES
    pc,               \* "idle": no script run in progress; "ready": at the call
                      \* of summarize_text; "inflight": blocked in requests.post
    keyFile,          \* the state of api_key.txt as the latest run found it
    api_key,          \* main's api_key / summarize_text's api_key argument
    diag,             \* the st.error diagnostics the latest run displayed
    formRendered,     \* the latest run got past the key check and drew the widgets
    user_text,        \* the text area's value
    word_limit,       \* the slider's value
    summarize_button, \* the latest run was triggered by a click of the button
    placeholder,      \* what summary_placeholder shows
    request,          \* the arguments of the requests.post call of this run
    posts,            \* calls of requests.post made by the latest run
    displays,         \* results written to summary_placeholder by the latest run
    waited,           \* time units the in-flight call has waited for the server
    response,         \* how the HTTP call of this run ended
    bodyParsed,       \* response.json() was called in this run
    summary,          \* what summarize_text returned in this run
    uncaught          \* the class of an exception that left the function, or "none"

vars == <<pc, keyFile, api_key, diag, formRendered, user_text, word_limit,
          summarize_button, placeholder, request, posts, displays, waited,
          response, bodyParsed, summary, uncaught>>

----------------------------------------------------------------------------
(* Bounds of the model *)

MaxKeyLen == 3
MaxTextLen == 2
MaxContentLen == 2

KeyChars == {" ", "k"}
TextChars == {" ", "a"}
ContentChars == {" ", "s"}

Strings(chars, n) == UNION {[1..k -> chars] : k \in 0..n}

----------------------------------------------------------------------------
(* Python values *)

PyNone == [t |-> "None", v |-> <<>>]
PyStr(s) == [t |-> "str", v |-> s]
PyInt(n) == [t |-> "int", v |-> n]
PyBool(b) == [t |-> "bool", v |-> b]
PyList(l) == [t |-> "list", v |-> l]
PyDict(d) == [t |-> "dict", v |-> d]
EmptyDict == PyDict(<<>>)

\* bool(x) for the types the code tests: None and "" are falsy
Truthy(x) ==
    CASE x.t = "None" -> FALSE
      [] x.t = "str" -> x.v # <<>>
      [] x.t = "bool" -> x.v
      [] x.t = "int" -> x.v # 0
      [] OTHER -> x.v # <<>>

\* str.isspace() of one character
IsSpace(c) == c \in {" ", "\n", "\t", "\r"}

RECURSIVE LStrip(_)
LStrip(s) ==
    IF s # <<>> /\ IsSpace(Head(s)) THEN LStrip(Tail(s)) ELSE s

RECURSIVE RStrip(_)
RStrip(s) ==
    IF s # <<>> /\ IsSpace(s[Len(s)]) THEN RStrip(SubSeq(s, 1, Len(s) - 1)) ELSE s

\* str.strip(): leading and trailing whitespace removed
Strip(s) == RStrip(LStrip(s))

\* one decimal digit of an int, as str() prints it
DigitChar(d) ==
    CASE d = 0 -> "0" [] d = 1 -> "1" [] d = 2 -> "2" [] d = 3 -> "3"
      [] d = 4 -> "4" [] d = 5 -> "5" [] d = 6 -> "6" [] d = 7 -> "7"
      [] d = 8 -> "8" [] d = 9 -> "9"

\* format(n) of a non-negative int inside an f-string: its decimal digits
RECURSIVE FormatInt(_)
FormatInt(n) ==
    IF n < 10 THEN <<DigitChar(n)>>
    ELSE FormatInt(n \div 10) \o <<DigitChar(n % 10)>>

----------------------------------------------------------------------------
(* Configuration, lines 7-9 *)

API_KEY_FILE == "api_key.txt"
OPENROUTER_API_URL == "https://openrouter.ai/api/v1/chat/completions"
MODEL == "stepfun/step-3.5-flash:free"

----------------------------------------------------------------------------
(* load_api_key *)

FileMissing == [kind |-> "missing", data |-> <<>>]
FileUnreadable == [kind |-> "unreadable", data |-> <<>>]
FileWith(s) == [kind |-> "text", data |-> s]

\* a key padded with blanks and ended by a newline
PaddedKeyFile == FileWith(<<" ", " ", "k", " ", " ", "\n">>)

\* what api_key.txt can be when a run reads it
KeyFiles ==
    {FileMissing, FileUnreadable, PaddedKeyFile}
        \cup {FileWith(s) : s \in Strings(KeyChars, MaxKeyLen)}

NoDiag == {}
ReadErrorDiag == "Error reading API key file: "

\* The mutants of load_api_key: f.read() without .strip(); `return api_key`
\* without the `if api_key else None`.
load_api_key_nostrip(file) ==
    IF file.kind = "missing" THEN [ret |-> PyNone, diag |-> NoDiag, raised |-> "none"]
    ELSE IF file.kind = "unreadable"
    THEN [ret |-> PyNone, diag |-> {ReadErrorDiag}, raised |-> "none"]
    ELSE [ret |-> IF file.data # <<>> THEN PyStr(file.data) ELSE PyNone,
          diag |-> NoDiag, raised |-> "none"]

load_api_key_noguard(file) ==
    IF file.kind = "missing" THEN [ret |-> PyNone, diag |-> NoDiag, raised |-> "none"]
    ELSE IF file.kind = "unreadable"
    THEN [ret |-> PyNone, diag |-> {ReadErrorDiag}, raised |-> "none"]
    ELSE [ret |-> PyStr(Strip(file.data)), diag |-> NoDiag, raised |-> "none"]

\* load_api_key(): the value returned, the st.error diagnostics shown and the
\* exception that leaves it ("none": every Exception is caught at line 20)
load_api_key(file) ==
    IF file.kind = "missing"
    THEN [ret |-> PyNone, diag |-> NoDiag, raised |-> "none"]
    ELSE IF file.kind = "unreadable"
    THEN [ret |-> PyNone, diag |-> {ReadErrorDiag}, raised |-> "none"]
    ELSE LET stripped == Strip(file.data)
         IN  [ret |-> IF Truthy(PyStr(stripped)) THEN PyStr(stripped) ELSE PyNone,
              diag |-> NoDiag, raised |-> "none"]

----------------------------------------------------------------------------
(* summarize_text: the request, lines 36-55 *)

Texts == Strings(TextChars, MaxTextLen)

SystemPromptHead ==
    "You are a helpful assistant that creates concise and accurate summaries of text. Provide clear, well-structured summaries that capture the main points. Keep your summary to approximately "
SystemPromptTail == " words."
UserPromptHead == "Please summarize the following text in approximately "
UserPromptTail == " words:\n\n"

\* The mutant of SystemContent: the prompt is written with the default
\* word_limit=100 of the signature instead of the argument.
SystemContentDefault(limit) ==
    <<SystemPromptHead>> \o FormatInt(100) \o <<SystemPromptTail>>

\* line 48
SystemContent(limit) ==
    <<SystemPromptHead>> \o FormatInt(limit) \o <<SystemPromptTail>>

\* line 52
UserContent(text, limit) ==
    <<UserPromptHead>> \o FormatInt(limit) \o <<UserPromptTail>> \o text

\* lines 36-41
Headers(key) ==
    [Authorization |-> <<"Bearer ">> \o key.v,
     ContentType |-> "application/json",
     HTTPReferer |-> "http://localhost:8501",
     XTitle |-> "Text Summarizer"]

\* lines 43-55
Payload(text, limit) ==
    [model |-> MODEL,
     messages |-> << [role |-> "system", content |-> SystemContent(limit)],
                     [role |-> "user", content |-> UserContent(text, limit)] >>]

RequestTimeout == 60

\* the arguments of requests.post, line 58
PostArgs(text, key, limit) ==
    [url |-> OPENROUTER_API_URL, headers |-> Headers(key),
     json |-> Payload(text, limit), timeout |-> RequestTimeout]

----------------------------------------------------------------------------
(* Exceptions *)

NoExc == [cls |-> "none", msg |-> ""]
Exc(c, m) == [cls |-> c, msg |-> m]

\* The classes an exception class derives from.  response.json() raises
\* requests.exceptions.JSONDecodeError (a RequestException and a
\* json.JSONDecodeError) in requests >= 2.27, and before that
\* json.JSONDecodeError, or simplejson's JSONDecodeError (a ValueError only)
\* where simplejson is installed.
Bases(c) ==
    CASE c \in {"ConnectionError", "Timeout", "HTTPError"} ->
            {"RequestException", "Exception"}
      [] c = "requests.JSONDecodeError" ->
            {"RequestException", "json.JSONDecodeError", "Exception"}
      [] c = "json.JSONDecodeError" -> {"Exception"}
      [] OTHER -> {"Exception"}

IsInstance(e, c) == e.cls = c \/ c \in Bases(e.cls)

DecodeErrorClasses ==
    {"requests.JSONDecodeError", "json.JSONDecodeError", "simplejson.JSONDecodeError"}

\* an evaluation step: a value, or an exception raised
Val(x) == [exc |-> NoExc, val |-> x]
Raise(c, m) == [exc |-> Exc(c, m), val |-> PyNone]

\* key in x
PyIn(key, x) ==
    CASE x.t = "dict" -> Val(PyBool(key \in DOMAIN x.v))
      [] x.t = "list" -> Val(PyBool(\E i \in 1..Len(x.v) : x.v[i] = PyStr(<<key>>)))
      [] x.t = "str" -> Val(PyBool(\E i \in 1..Len(x.v) : x.v[i] = key))
      [] OTHER -> Raise("TypeError", "argument is not iterable")

\* x[key], key a str
GetKey(x, key) ==
    CASE x.t = "dict" ->
            IF key \in DOMAIN x.v THEN Val(x.v[key]) ELSE Raise("KeyError", key)
      [] x.t \in {"list", "str"} -> Raise("TypeError", "indices must be integers")
      [] OTHER -> Raise("TypeError", "object is not subscriptable")

\* x[0]
GetFirst(x) ==
    CASE x.t = "list" ->
            IF Len(x.v) > 0 THEN Val(x.v[1]) ELSE Raise("IndexError", "list index out of range")
      [] x.t = "str" ->
            IF Len(x.v) > 0 THEN Val(PyStr(<<x.v[1]>>))
            ELSE Raise("IndexError", "string index out of range")
      [] x.t = "dict" -> Raise("KeyError", "0")
      [] OTHER -> Raise("TypeError", "object is not subscriptable")

\* len(x)
PyLen(x) ==
    CASE x.t \in {"list", "str"} -> Val(PyInt(Len(x.v)))
      [] x.t = "dict" -> Val(PyInt(Cardinality(DOMAIN x.v)))
      [] OTHER -> Raise("TypeError", "object has no len()")

----------------------------------------------------------------------------
(* The HTTP call and what the server can answer *)

NoBody == [parseable |-> TRUE, value |-> PyNone, decodeError |-> "none"]
JsonBody(x) == [parseable |-> TRUE, value |-> x, decodeError |-> "none"]
BadBody(c) == [parseable |-> FALSE, value |-> PyNone, decodeError |-> c]

NoResponse == [kind |-> "none", exc |-> NoExc, status |-> 0, body |-> NoBody]
PostRaises(e) == [kind |-> "raised", exc |-> e, status |-> 0, body |-> NoBody]
Reply(st, b) == [kind |-> "reply", exc |-> NoExc, status |-> st, body |-> b]

TimeoutOutcome == PostRaises(Exc("Timeout", "Read timed out. (read timeout=60)"))
ConnectionOutcome == PostRaises(Exc("ConnectionError", "Connection refused"))

\* message.content values: a str, or another JSON scalar
ContentValues ==
    {PyStr(s) : s \in Strings(ContentChars, MaxContentLen)} \cup {PyNone, PyInt(7)}

MessageValues ==
    {PyNone, PyStr(<<"s">>), EmptyDict} \cup {PyDict([content |-> c]) : c \in ContentValues}

ChoiceValues ==
    {PyNone, EmptyDict} \cup {PyDict([message |-> m]) : m \in MessageValues}

\* a second choice, where the array has two
LaterChoices ==
    {EmptyDict, PyDict([message |-> PyDict([content |-> PyStr(<<"s", "s">>)])])}

\* the first choice of such an array
FirstChoices ==
    {EmptyDict, PyDict([message |-> PyDict([content |-> PyStr(<<"s">>)])]),
     PyDict([message |-> PyDict([content |-> PyStr(<<" ", "s">>)])])}

ChoicesValues ==
    {PyNone, PyInt(7), PyStr(<<"s">>), PyStr(<<>>), EmptyDict, PyList(<<>>)}
        \cup {PyList(<<c>>) : c \in ChoiceValues}
        \cup {PyList(<<c, d>>) : c \in FirstChoices, d \in LaterChoices}

\* what a body that parses as JSON can parse to
ParsedValues ==
    {PyNone, PyBool(TRUE), PyInt(7), PyStr(<<"s">>), PyStr(<<"choices">>),
     PyList(<<>>), PyList(<<PyStr(<<"choices">>)>>), EmptyDict,
     PyDict([error |-> PyStr(<<"s">>)])}
        \cup {PyDict([choices |-> x]) : x \in ChoicesValues}
        \cup {PyDict([choices |-> PyList(<<c>>), id |-> PyStr(<<"s">>)]) : c \in LaterChoices}

Bodies == {JsonBody(x) : x \in ParsedValues} \cup {BadBody(c) : c \in DecodeErrorClasses}

\* bodies of replies whose status is not 200
OtherBodies ==
    {BadBody("requests.JSONDecodeError"),
     JsonBody(PyDict([error |-> PyStr(<<"s">>)])),
     JsonBody(PyDict([choices |-> PyList(<<PyDict([message |->
         PyDict([content |-> PyStr(<<"s">>)])])>>)]))}

\* statuses raise_for_status lets through, and statuses it raises for
PassingStatuses == {304}
FailingStatuses == {404, 500}

\* every way the call can end on its own (the timeout is TimeoutFires)
ServerOutcomes ==
    {ConnectionOutcome}
        \cup {Reply(200, b) : b \in Bodies}
        \cup {Reply(st, b) : st \in PassingStatuses \cup FailingStatuses, b \in OtherBodies}

----------------------------------------------------------------------------
(* summarize_text: the try block and its handlers, lines 57-73 *)

\* The mutant of raise_for_status: the call at line 59 is missing.
raise_for_status_missing(resp) == NoExc

\* response.raise_for_status(), line 59: HTTPError for 4xx and 5xx
raise_for_status(resp) ==
    IF 400 <= resp.status /\ resp.status < 600
    THEN Exc("HTTPError", IF resp.status < 500 THEN "Client Error" ELSE "Server Error")
    ELSE NoExc

\* response.json(), line 60
response_json(resp) ==
    IF resp.body.parseable THEN Val(resp.body.value)
    ELSE Raise(resp.body.decodeError, "Expecting value: line 1 column 1 (char 0)")

ShapeDiag == PyStr(<<"Error: Unexpected response format from API">>)
ParseDiag == PyStr(<<"Error: Could not parse API response">>)
TransportPrefix == "Error making API request: "
UnexpectedPrefix == "Unexpected error: "

\* The mutant of ExtractSummary: the last choice is taken instead of the first.
ExtractSummaryLast(result) ==
    LET cs == GetKey(result, "choices")
        last == IF cs.exc # NoExc THEN cs
                ELSE IF cs.val.t = "list" /\ Len(cs.val.v) > 0
                THEN Val(cs.val.v[Len(cs.val.v)])
                ELSE GetFirst(cs.val)
        m == IF last.exc # NoExc THEN last ELSE GetKey(last.val, "message")
    IN  IF m.exc # NoExc THEN m ELSE GetKey(m.val, "content")

\* result['choices'][0]['message']['content'], line 63
ExtractSummary(result) ==
    LET cs == GetKey(result, "choices")
        first == IF cs.exc # NoExc THEN cs ELSE GetFirst(cs.val)
        m == IF first.exc # NoExc THEN first ELSE GetKey(first.val, "message")
    IN  IF m.exc # NoExc THEN m ELSE GetKey(m.val, "content")

\* The mutant of HasChoices: only the presence of the key is tested.
HasChoicesKeyOnly(result) == PyIn("choices", result)

\* 'choices' in result and len(result['choices']) > 0, line 62
HasChoices(result) ==
    LET has == PyIn("choices", result)
        cs == GetKey(result, "choices")
        n == IF cs.exc # NoExc THEN cs ELSE PyLen(cs.val)
    IN  IF has.exc # NoExc \/ ~has.val.v THEN has
        ELSE IF n.exc # NoExc THEN n
        ELSE Val(PyBool(n.val.v > 0))

\* lines 58-66: the value returned, or the exception raised, and whether
\* response.json() was reached
TryBlock(resp) ==
    IF resp.kind = "raised" THEN [exc |-> resp.exc, val |-> PyNone, parsed |-> FALSE]
    ELSE LET st == raise_for_status(resp) IN
    IF st # NoExc THEN [exc |-> st, val |-> PyNone, parsed |-> FALSE]
    ELSE LET result == response_json(resp) IN
    IF result.exc # NoExc THEN [exc |-> result.exc, val |-> PyNone, parsed |-> TRUE]
    ELSE LET has == HasChoices(result.val) IN
    IF has.exc # NoExc THEN [exc |-> has.exc, val |-> PyNone, parsed |-> TRUE]
    ELSE IF has.val.v
    THEN LET s == ExtractSummary(result.val)
         IN  [exc |-> s.exc, val |-> s.val, parsed |-> TRUE]
    ELSE [exc |-> NoExc, val |-> ShapeDiag, parsed |-> TRUE]

\* the except clauses in their order, lines 68-73
Handlers == <<"RequestException", "json.JSONDecodeError", "Exception">>

\* the first clause that matches the exception (0: none does)
MatchingHandler(e) ==
    IF \E i \in 1..Len(Handlers) : IsInstance(e, Handlers[i])
    THEN CHOOSE i \in 1..Len(Handlers) :
            /\ IsInstance(e, Handlers[i])
            /\ \A j \in 1..(i - 1) : ~IsInstance(e, Handlers[j])
    ELSE 0

\* what the matching except clause returns
Handle(e) ==
    LET h == MatchingHandler(e)
    IN  CASE h = 1 -> [ret |-> PyStr(<<TransportPrefix, e.msg>>), uncaught |-> "none"]
          [] h = 2 -> [ret |-> ParseDiag, uncaught |-> "none"]
          [] h = 3 -> [ret |-> PyStr(<<UnexpectedPrefix, e.msg>>), uncaught |-> "none"]
          [] OTHER -> [ret |-> PyNone, uncaught |-> e.cls]

\* summarize_text from the return of requests.post on
summarize_text(resp) ==
    LET t == TryBlock(resp)
    IN  IF t.exc = NoExc
        THEN [ret |-> t.val, uncaught |-> "none", parsed |-> t.parsed]
        ELSE [ret |-> Handle(t.exc).ret, uncaught |-> Handle(t.exc).uncaught,
              parsed |-> t.parsed]

----------------------------------------------------------------------------
(* main, lines 75-165: one run of the script per user interaction *)

SliderMin == 30
SliderMax == 150
SliderStep == 10
SliderDefault == 100

\* the values the slider of lines 135-142 can take
SliderValues ==
    {w \in SliderMin..SliderMax : (w - SliderMin) % SliderStep = 0}

KeyNotFoundDiag == "API key not found!"

Shows(kind, body) == [kind |-> kind, body |-> body]
NothingShown == Shows("none", PyNone)
InfoShown == Shows("info", PyStr(<<"Enter text and click 'Summarize' to see the result here.">>))
WarningShown == Shows("warning", PyStr(<<"Please enter some text to summarize.">>))

\* The mutant of TextMissing: only the emptiness of the text is tested.
TextMissingEmptyOnly(text) == ~Truthy(PyStr(text))

\* not user_text or not user_text.strip(), line 151
TextMissing(text) ==
    ~Truthy(PyStr(text)) \/ ~Truthy(PyStr(Strip(text)))

\* The mutant of AfterCall: a call that ended in a diagnostic is issued again.
AfterCallRetry(ret) ==
    IF ret.t = "str" /\ ret.v # <<>> /\ ret.v[1] = TransportPrefix
    THEN [pc |-> "inflight", posts |-> 1, displays |-> 0]
    ELSE [pc |-> "idle", posts |-> 0, displays |-> 1]

\* lines 155-158 after summarize_text returned: the result is shown once
\* and the run ends; nothing calls summarize_text again
AfterCall(ret) == [pc |-> "idle", posts |-> 0, displays |-> 1]

\* summarize_text up to the blocking requests.post of line 58
IssuePost(text, key, limit) ==
    /\ request' = <<PostArgs(text, key, limit)>>
    /\ posts' = posts + 1
    /\ waited' = 0
    /\ pc' = "inflight"

\* main returns without calling summarize_text
Return ==
    /\ request' = <<>>
    /\ posts' = 0
    /\ waited' = 0
    /\ pc' = "idle"

Unread == [kind |-> "unread", data |-> <<>>]

\* An interaction reaches the server: the widgets hold (text, limit, button)
\* and a run of the script is due.  What the previous run left is dropped;
\* the page keeps showing its elements until the run replaces them.
Rerun(text, limit, button) ==
    /\ pc' = "rerun"
    /\ user_text' = text
    /\ word_limit' = limit
    /\ summarize_button' = button
    /\ keyFile' = Unread
    /\ api_key' = PyNone
    /\ diag' = {}
    /\ request' = <<>>
    /\ posts' = 0
    /\ displays' = 0
    /\ waited' = 0
    /\ response' = NoResponse
    /\ bodyParsed' = FALSE
    /\ summary' = <<>>
    /\ uncaught' = "none"
    /\ UNCHANGED <<formRendered, placeholder>>

\* the page is opened or reloaded: the widgets have their defaults
OpenPage ==
    /\ pc = "idle"
    /\ Rerun(<<>>, SliderDefault, FALSE)

\* the text area is edited
EditText ==
    /\ pc = "idle" /\ formRendered
    /\ \E t \in Texts \ {user_text} : Rerun(t, word_limit, FALSE)

\* the slider is moved
MoveSlider ==
    /\ pc = "idle" /\ formRendered
    /\ \E w \in SliderValues \ {word_limit} : Rerun(user_text, w, FALSE)

\* the Summarize button is clicked
PressSummarize ==
    /\ pc = "idle" /\ formRendered
    /\ Rerun(user_text, word_limit, TRUE)

\* main() with api_key.txt as `file`, up to its return or to the blocking
\* call of requests.post
Main(file) ==
    LET k == load_api_key(file) IN
    /\ keyFile' = file
    /\ api_key' = k.ret
    /\ diag' = IF k.raised = "none" /\ ~Truthy(k.ret)
               THEN k.diag \cup {KeyNotFoundDiag} ELSE k.diag
    /\ uncaught' = k.raised
    /\ IF k.raised # "none" \/ ~Truthy(k.ret)
       THEN \* lines 91-102: nothing below line 102 runs
            /\ formRendered' = FALSE
            /\ placeholder' = NothingShown
            /\ Return
       ELSE /\ formRendered' = TRUE
            /\ IF summarize_button
               THEN IF TextMissing(user_text)
                    THEN placeholder' = WarningShown /\ Return
                    ELSE /\ placeholder' = NothingShown
                         /\ IssuePost(user_text, k.ret, word_limit)
               ELSE placeholder' = InfoShown /\ Return
    /\ UNCHANGED <<user_text, word_limit, summarize_button, displays, response,
                   bodyParsed, summary>>

\* the script runs
RunMain ==
    /\ pc = "rerun"
    /\ \E f \in KeyFiles : Main(f)

\* summarize_text returns and main shows what it returned, lines 155-156
Finish(resp) ==
    LET s == summarize_text(resp)
        next == AfterCall(s.ret)
    IN  /\ response' = resp
        /\ bodyParsed' = s.parsed
        /\ summary' = <<s.ret>>
        /\ uncaught' = s.uncaught
        /\ pc' = next.pc
        /\ posts' = posts + next.posts
        /\ displays' = displays + next.displays
        /\ placeholder' = IF next.displays > 0 THEN Shows("markdown", s.ret) ELSE placeholder
        /\ waited' = 0
        /\ UNCHANGED <<keyFile, api_key, diag, formRendered, user_text, word_limit,
                       summarize_button, request>>

\* the whole timeout passes with the call blocked and no reply
Wait ==
    /\ pc = "inflight" /\ waited < RequestTimeout
    /\ waited' = RequestTimeout
    /\ UNCHANGED <<pc, keyFile, api_key, diag, formRendered, user_text, word_limit,
                   summarize_button, placeholder, request, posts, displays,
                   response, bodyParsed, summary, uncaught>>

\* timeout=60 of line 58: the call is abandoned with a Timeout
TimeoutFires ==
    /\ pc = "inflight" /\ waited >= RequestTimeout
    /\ Finish(TimeoutOutcome)

\* the call ends on its own: an error of the connection, or a reply
Respond ==
    /\ pc = "inflight" /\ waited < RequestTimeout
    /\ \E r \in ServerOutcomes : Finish(r)

NoRun ==
    /\ pc = "idle" /\ keyFile = Unread
    /\ api_key = PyNone /\ diag = {} /\ formRendered = FALSE
    /\ user_text = <<>> /\ word_limit = SliderDefault /\ summarize_button = FALSE
    /\ placeholder = NothingShown /\ request = <<>> /\ posts = 0 /\ displays = 0
    /\ waited = 0 /\ response = NoResponse /\ bodyParsed = FALSE
    /\ summary = <<>> /\ uncaught = "none"

Init == NoRun

Next ==
    \/ OpenPage
    \/ RunMain
    \/ EditText
    \/ MoveSlider
    \/ PressSummarize
    \/ Wait
    \/ TimeoutFires
    \/ Respond

Spec == Init /\ [][Next]_vars

\* The clock advances while the call is blocked and the timeout of line 58
\* ends the wait.
FairSpec == Spec /\ WF_vars(Wait) /\ WF_vars(TimeoutFires)

----------------------------------------------------------------------------
(* summarize_text on its own: every word_limit of [30,150], any text *)

FnKeys == {PyStr(<<"k">>), PyStr(<<"k", " ", "k">>)}

InitFn ==
    /\ pc = "ready"
    /\ api_key \in FnKeys
    /\ keyFile = FileWith(api_key.v)
    /\ user_text \in Texts
    /\ word_limit \in SliderMin..SliderMax
    /\ diag = {} /\ formRendered = TRUE /\ summarize_button = TRUE
    /\ placeholder = NothingShown /\ request = <<>> /\ posts = 0 /\ displays = 0
    /\ waited = 0 /\ response = NoResponse /\ bodyParsed = FALSE
    /\ summary = <<>> /\ uncaught = "none"

\* the call summarize_text(text, api_key, word_limit)
CallSummarize ==
    /\ pc = "ready"
    /\ IssuePost(user_text, api_key, word_limit)
    /\ UNCHANGED <<keyFile, api_key, diag, formRendered, user_text, word_limit,
                   summarize_button, placeholder, displays, response, bodyParsed,
                   summary, uncaught>>

NextFn ==
    \/ CallSummarize
    \/ Wait
    \/ TimeoutFires
    \/ Respond

SpecFn == InitFn /\ [][NextFn]_vars

----------------------------------------------------------------------------
(* Properties *)

\* a str with no character that is not whitespace
Blank(s) == \A i \in 1..Len(s) : s[i] \in {" ", "\n", "\t", "\r"}

\* the part of s from its first to its last non-whitespace character
Trimmed(s) ==
    LET inner == {i \in 1..Len(s) : s[i] \notin {" ", "\n", "\t", "\r"}}
    IN  IF inner = {} THEN <<>>
        ELSE LET lo == CHOOSE i \in inner : \A j \in inner : i <= j
                 hi == CHOOSE i \in inner : \A j \in inner : j <= i
             IN  [i \in 1..(hi - lo + 1) |-> s[lo + i - 1]]

\* the latest run of main read api_key.txt
KeyWasRead == keyFile.kind \in {"missing", "unreadable", "text"}

\* C1: when the credential file is missing, empty or whitespace-only, the
\* run yields no credential and returns before the form is rendered:
\* summarize_text is not invoked and no network call is made, whatever the
\* text and the button state.
C1_NoCredentialNoCall ==
    (keyFile.kind \in {"missing", "text"} /\ Blank(keyFile.data))
        => /\ api_key = PyNone
           /\ pc = "idle"
           /\ ~formRendered
           /\ posts = 0
           /\ request = <<>>
           /\ summary = <<>>
           /\ placeholder.kind = "none"

\* a run triggered by the button, with text to summarize, found a
\* whitespace-only credential file
C1_Witness ==
    /\ keyFile.kind = "text" /\ keyFile.data # <<>> /\ Blank(keyFile.data)
    /\ summarize_button
    /\ ~Blank(user_text)
    /\ pc = "idle"

\* C2: with a valid credential, pressing Summarize on an empty or
\* whitespace-only text shows the validation warning; summarize_text is not
\* invoked and no network call is made.
C2_BlankTextNoCall ==
    (KeyWasRead /\ api_key.t = "str" /\ summarize_button /\ Blank(user_text))
        => /\ placeholder.kind = "warning"
           /\ pc = "idle"
           /\ posts = 0
           /\ request = <<>>
           /\ summary = <<>>

\* the button was pressed on a text of blanks only
C2_Witness ==
    /\ KeyWasRead /\ api_key.t = "str" /\ summarize_button
    /\ user_text # <<>> /\ Blank(user_text)
    /\ placeholder.kind = "warning"

\* C8: load_api_key returns the contents without their leading and trailing
\* whitespace when that is non-empty, and None when the file is missing,
\* blank or unreadable; a read error is reported as a diagnostic and no
\* exception propagates.
C8_LoadApiKey ==
    KeyWasRead
        => /\ uncaught = "none"
           /\ (keyFile.kind = "text" /\ ~Blank(keyFile.data))
                => api_key = [t |-> "str", v |-> Trimmed(keyFile.data)]
           /\ (keyFile.kind \in {"missing", "unreadable"} \/ Blank(keyFile.data))
                => api_key = PyNone
           /\ (keyFile.kind = "unreadable") <=> ("Error reading API key file: " \in diag)

\* the padded key was read and came out bare
C8_Witness ==
    /\ keyFile = [kind |-> "text", data |-> <<" ", " ", "k", " ", " ", "\n">>]
    /\ api_key = [t |-> "str", v |-> <<"k">>]

\* summarize_text has returned in the latest run
Returned == summary # <<>>

\* the HTTP call came back with a status raise_for_status lets through
CallSucceeded == response.kind = "reply" /\ ~(response.status \in 400..599)

\* the call came back with such a status and a body that parses as JSON
ParsedReply == CallSucceeded /\ response.body.parseable

\* C3: on a transport failure (connection error, timeout, or a status
\* raise_for_status raises for) summarize_text returns "Error making API
\* request: " followed by the error's description; it does not raise and
\* the response body is not parsed.
C3_TransportDiagnostic ==
    (Returned /\ (response.kind = "raised"
                    \/ (response.kind = "reply" /\ response.status \in 400..599)))
        => /\ uncaught = "none"
           /\ ~bodyParsed
           /\ summary[1].t = "str"
           /\ Len(summary[1].v) = 2
           /\ summary[1].v[1] = "Error making API request: "
           /\ response.kind = "raised" => summary[1].v[2] = response.exc.msg
           /\ response.kind = "reply"
                => summary[1].v[2] = (IF response.status < 500 THEN "Client Error"
                                      ELSE "Server Error")

\* a 500 reply whose body would have been a summary
C3_Witness ==
    /\ Returned /\ pc = "idle"
    /\ response.kind = "reply" /\ response.status = 500
    /\ response.body.parseable /\ response.body.value.t = "dict"
    /\ "choices" \in DOMAIN response.body.value.v
    /\ summary[1].v[1] = "Error making API request: "

\* C4: when the call succeeds with a 2xx status and the body is not
\* parseable as JSON, summarize_text returns exactly "Error: Could not
\* parse API response".
C4_ParseDiagnostic ==
    (Returned /\ response.kind = "reply" /\ response.status \in 200..299
        /\ ~response.body.parseable)
        => summary[1] = [t |-> "str", v |-> <<"Error: Could not parse API response">>]

\* C5: when the call succeeds and the parsed response is an object with no
\* "choices" field, or with an empty "choices" array, summarize_text
\* returns exactly "Error: Unexpected response format from API".
C5_ShapeDiagnostic ==
    (Returned /\ ParsedReply /\ response.body.value.t = "dict"
        /\ ("choices" \notin DOMAIN response.body.value.v
              \/ response.body.value.v.choices = [t |-> "list", v |-> <<>>]))
        => summary[1] = [t |-> "str", v |-> <<"Error: Unexpected response format from API">>]

\* a reply with an empty choices array was handled
C5_Witness ==
    /\ Returned /\ pc = "idle" /\ ParsedReply
    /\ response.body.value = [t |-> "dict", v |-> [choices |-> [t |-> "list", v |-> <<>>]]]
    /\ placeholder.kind = "markdown"

\* the parsed response has a non-empty choices array whose first element
\* holds message.content
HasFirstContent ==
    /\ ParsedReply
    /\ response.body.value.t = "dict"
    /\ "choices" \in DOMAIN response.body.value.v
    /\ response.body.value.v.choices.t = "list"
    /\ Len(response.body.value.v.choices.v) > 0
    /\ response.body.value.v.choices.v[1].t = "dict"
    /\ "message" \in DOMAIN response.body.value.v.choices.v[1].v
    /\ response.body.value.v.choices.v[1].v.message.t = "dict"
    /\ "content" \in DOMAIN response.body.value.v.choices.v[1].v.message.v

FirstContent == response.body.value.v.choices.v[1].v.message.v.content

\* C6: when the first element of a non-empty choices array holds
\* message.content = c, summarize_text returns exactly c: the first
\* choice's content, never a later one's, not trimmed or cut.
C6_FirstChoiceVerbatim ==
    (Returned /\ HasFirstContent) => summary[1] = FirstContent

\* two choices, the first with a content that starts with a blank
C6_Witness ==
    /\ Returned /\ pc = "idle" /\ HasFirstContent
    /\ Len(response.body.value.v.choices.v) = 2
    /\ FirstContent = [t |-> "str", v |-> <<" ", "s">>]
    /\ "message" \in DOMAIN response.body.value.v.choices.v[2].v
    /\ summary[1] = [t |-> "str", v |-> <<" ", "s">>]

\* C9: summarize_text never lets an exception out of the call and the
\* handling of the response: for every outcome of the call and every parsed
\* value it returns a string, and a failure that is not a transport, parse
\* or shape failure returns "Unexpected error: " and the description.
C9_AlwaysReturnsString ==
    Returned
        => /\ uncaught = "none"
           /\ summary[1].t = "str"
           /\ (ParsedReply /\ response.body.value.t \in {"None", "int", "bool"})
                => (Len(summary[1].v) = 2 /\ summary[1].v[1] = "Unexpected error: ")
           /\ (ParsedReply /\ response.body.value.t = "dict"
                 /\ "choices" \in DOMAIN response.body.value.v
                 /\ response.body.value.v.choices.t = "list"
                 /\ Len(response.body.value.v.choices.v) > 0
                 /\ ~HasFirstContent)
                => (Len(summary[1].v) = 2 /\ summary[1].v[1] = "Unexpected error: ")

Digits == {"0", "1", "2", "3", "4", "5", "6", "7", "8", "9"}

DigitValue(c) ==
    CASE c = "0" -> 0 [] c = "1" -> 1 [] c = "2" -> 2 [] c = "3" -> 3 [] c = "4" -> 4
      [] c = "5" -> 5 [] c = "6" -> 6 [] c = "7" -> 7 [] c = "8" -> 8 [] c = "9" -> 9

\* the number a run of decimal digits writes
RECURSIVE Decimal(_)
Decimal(ds) ==
    IF ds = <<>> THEN 0
    ELSE 10 * Decimal(SubSeq(ds, 1, Len(ds) - 1)) + DigitValue(ds[Len(ds)])

\* text holds the integer n: a maximal run of digits that writes n
HoldsInteger(text, n) ==
    \E i \in 1..Len(text) : \E j \in i..Len(text) :
        /\ \A k \in i..j : text[k] \in Digits
        /\ (i = 1 \/ text[i - 1] \notin Digits)
        /\ (j = Len(text) \/ text[j + 1] \notin Digits)
        /\ Decimal(SubSeq(text, i, j)) = n

\* text holds part, character for character
HoldsText(text, part) ==
    \E i \in 1..(Len(text) + 1) :
        /\ i + Len(part) - 1 <= Len(text)
        /\ SubSeq(text, i, i + Len(part) - 1) = part

\* C7: for every word_limit in [30,150] the request has a messages array
\* of exactly two entries, system then user; the system entry's content
\* holds that integer and the user entry's content holds the input text
\* unchanged.
C7_RequestMessages ==
    (request # <<>> /\ word_limit \in 30..150)
        => /\ Len(request[1].json.messages) = 2
           /\ request[1].json.messages[1].role = "system"
           /\ request[1].json.messages[2].role = "user"
           /\ HoldsInteger(request[1].json.messages[1].content, word_limit)
           /\ HoldsText(request[1].json.messages[2].content, user_text)

\* a request for 137 words, a limit the slider cannot be set to, and a text
\* that starts with a blank
C7_Witness ==
    /\ pc = "inflight" /\ request # <<>>
    /\ word_limit = 137
    /\ user_text = <<" ", "a">>

\* Summarize was pressed with a credential and a text to summarize
ValidPress == summarize_button /\ api_key.t = "str" /\ ~Blank(user_text)

====
